---- MODULE Spec2Model ----
(***************************************************************************)
(* Permission-driven routes, menu, tabs and session of the management      *)
(* console: a state-machine model of src/constants/permissions.ts,         *)
(* src/router/routerMap.tsx, src/utils/menuItemsGenerator.ts,              *)
(* src/hooks/useRouteSync.ts, src/store/login/authSlice.ts,                *)
(* src/store/selectors/authSelectors.ts, src/types/jwtPayload.ts,          *)
(* utils/RequireAuth.tsx and src/utils/http/http.ts.                       *)
(***************************************************************************)
EXTENDS Integers, Sequences, FiniteSets, TLC

VARIABLES
  \* route generation (generateRoutesFromPermissions as a pure function)
  permsIn, routesOut, rpc,
  \* menu filtering (generateMenuFromPermissions / filterMenu)
  \* menuIn is the tree as it stands in memory, menuPrev the result of the call before
  menuIn, menuPerms, menuOut, menuPrev, mpc,
  \* session: authSlice store, sessionStorage, router, rendered page
  token, permissions, ssToken, ssPermissions, routeTree, href, rendered, loginPc, lastEvent,
  \* tabs: tabsSlice store, its sessionStorage item, location.pathname, the
  \* dependency values the two effects last ran for, the last dispatch
  tabs, tabsStorage, pathname, navDep, syncDep, lastOp,
  \* one call of the HTTP client: where it stands, the outcome of each attempt,
  \* config.__retryCount, the last backoff delay, the Authorization header, the
  \* retry frames still awaiting, the promise value on its way to the caller,
  \* and how often handleError has run for the call
  hpc, attempts, retryCount, backoff, authHeader, frames, settled, handled,
  \* the clock, in the seconds of Date.now() / 1000
  now

routeVars == <<permsIn, routesOut, rpc>>
menuVars  == <<menuIn, menuPerms, menuOut, menuPrev, mpc>>
sessVars  == <<token, permissions, ssToken, ssPermissions, routeTree, href, rendered,
               loginPc, lastEvent>>
tabVars   == <<tabs, tabsStorage, pathname, navDep, syncDep, lastOp>>
httpVars  == <<hpc, attempts, retryCount, backoff, authHeader, frames, settled, handled>>
vars      == <<routeVars, menuVars, sessVars, tabVars, httpVars, now>>

\* ------------------------------------------------------------------ bounds

\* longest permission list handed to the route generator
MaxPermLen == 2

\* most nodes in a menu tree handed to filterMenu
MaxNodes == 3

\* the last second the clock reaches
MaxClock == 3

\* ------------------------------------------------------------- sequences

Range(s) == { s[i] : i \in DOMAIN s }

SeqsUpTo(S, n) == UNION { [1..k -> S] : k \in 0..n }

\* ------------------------------------------- the parts a specification leaves idle

MenuIdle ==
  /\ menuIn = <<>> /\ menuPerms = <<>> /\ menuOut = <<>> /\ menuPrev = <<>> /\ mpc = "idle"

SessIdle ==
  /\ token = "" /\ permissions = <<>> /\ ssToken = ""
  /\ ssPermissions = [present |-> FALSE, value |-> <<>>]
  /\ routeTree = <<>> /\ href = "" /\ rendered = "" /\ loginPc = "off" /\ lastEvent = "idle"

TabsIdle ==
  /\ tabs = [activeKey |-> "", items |-> <<>>]
  /\ tabsStorage = [present |-> FALSE, value |-> [activeKey |-> "", items |-> <<>>]]
  /\ pathname = "" /\ navDep = "" /\ syncDep = ""
  /\ lastOp = [op |-> "idle", key |-> "", wasActive |-> FALSE, before |-> "", existed |-> {}]

RoutesIdle ==
  /\ permsIn = <<>> /\ routesOut = <<>> /\ rpc = "idle"

ClockIdle == now = 0

HttpIdle ==
  /\ hpc = "idle" /\ attempts = <<>> /\ retryCount = 0 /\ backoff = 0
  /\ authHeader = <<>> /\ frames = 0 /\ settled = [kind |-> "none"] /\ handled = 0

\* ------------------------------------------------- constants/permissions.ts

PERMISSIONS ==
  [ DASHBOARD_READ                  |-> "dashboard.read",
    TENANTS_READ                    |-> "tenants.read",
    TENANTS_CREATE                  |-> "tenants.create",
    PORTFOLIO_BUILDING_READ         |-> "portfolio.buildings.read",
    PORTFOLIO_SPACES_READ           |-> "portfolio.spaces.read",
    PORTFOLIO_PARKING_READ          |-> "portfolio.parking.read",
    REPAIR_READ                     |-> "repair.read",
    FINANCIALS_CONTRACT_READ        |-> "financials.contract.read",
    FINANCIALS_CONTRACT_DETAIL_READ |-> "financials.contract-detail.read",
    FINANCIALS_BILLING_READ         |-> "financials.billing.read",
    MERCHANT_PORTAL_READ            |-> "merchant-portal.read",
    OPERATION_ANALYTICS_READ        |-> "operation-center.analytics.read",
    OPERATION_ARTICLE_READ          |-> "operation-center.article.read",
    OPERATION_COMMENTS_READ         |-> "operation-center.comments.read",
    EQUIPMENT_READ                  |-> "equipment.read",
    ENERGY_READ                     |-> "energy.read",
    AUTHORIZATION_CENTER_READ       |-> "authorization-center.read",
    USER_PROFILE_READ               |-> "user-profile.read" ]

RESOURCES ==
  [ DASHBOARD                  |-> "/dashboard",
    TENANTS                    |-> "/tenants",
    TENANTS_LIST               |-> "/tenants/list",
    TENANTS_CREATION           |-> "/tenants/creation",
    PORTFOLIO                  |-> "/portfolio",
    PORTFOLIO_BUILDING         |-> "/portfolio/building",
    PORTFOLIO_SPACES           |-> "/portfolio/spaces",
    PORTFOLIO_PARKING          |-> "/portfolio/parking",
    REPAIR                     |-> "/repair",
    FINANCIALS                 |-> "/financials",
    FINANCIALS_CONTRACT        |-> "/financials/contract",
    FINANCIALS_CONTRACT_DETAIL |-> "/financials/contract-detail",
    FINANCIALS_BILLING         |-> "/financials/billing",
    MERCHANT_PORTAL            |-> "/merchant-portal",
    OPERATION_CENTER           |-> "/operation-center",
    OPERATION_ANALYTICS        |-> "/operation-center/analytics",
    OPERATION_ARTICLE          |-> "/operation-center/article",
    OPERATION_COMMENTS         |-> "/operation-center/comments",
    EQUIPMENT                  |-> "/equipment",
    ENERGY                     |-> "/energy",
    AUTHORIZATION_CENTER       |-> "/authorization-center",
    USER_PROFILE               |-> "/user-profile" ]

\* the set of Permission values (Object.values(PERMISSIONS))
Permission == { PERMISSIONS[k] : k \in DOMAIN PERMISSIONS }

\* Record<Permission, RouteInfo>: path, label and parentPath ("" when absent)
PERMISSION_ROUTE_MAP ==
  (PERMISSIONS.DASHBOARD_READ :>
     [path |-> RESOURCES.DASHBOARD, label |-> "Dashboard", parentPath |-> ""]) @@
  (PERMISSIONS.TENANTS_READ :>
     [path |-> RESOURCES.TENANTS_LIST, label |-> "Tenant List", parentPath |-> RESOURCES.TENANTS]) @@
  (PERMISSIONS.TENANTS_CREATE :>
     [path |-> RESOURCES.TENANTS_CREATION, label |-> "Add Tenant", parentPath |-> RESOURCES.TENANTS]) @@
  (PERMISSIONS.PORTFOLIO_BUILDING_READ :>
     [path |-> RESOURCES.PORTFOLIO_BUILDING, label |-> "Building Management", parentPath |-> RESOURCES.PORTFOLIO]) @@
  (PERMISSIONS.PORTFOLIO_SPACES_READ :>
     [path |-> RESOURCES.PORTFOLIO_SPACES, label |-> "Room Management", parentPath |-> RESOURCES.PORTFOLIO]) @@
  (PERMISSIONS.PORTFOLIO_PARKING_READ :>
     [path |-> RESOURCES.PORTFOLIO_PARKING, label |-> "Vehicle Information", parentPath |-> RESOURCES.PORTFOLIO]) @@
  (PERMISSIONS.REPAIR_READ :>
     [path |-> RESOURCES.REPAIR, label |-> "Repair Management", parentPath |-> ""]) @@
  (PERMISSIONS.FINANCIALS_CONTRACT_READ :>
     [path |-> RESOURCES.FINANCIALS_CONTRACT, label |-> "Contract Management", parentPath |-> RESOURCES.FINANCIALS]) @@
  (PERMISSIONS.FINANCIALS_CONTRACT_DETAIL_READ :>
     [path |-> RESOURCES.FINANCIALS_CONTRACT_DETAIL, label |-> "Contract Detail", parentPath |-> RESOURCES.FINANCIALS]) @@
  (PERMISSIONS.FINANCIALS_BILLING_READ :>
     [path |-> RESOURCES.FINANCIALS_BILLING, label |-> "Billing Management", parentPath |-> RESOURCES.FINANCIALS]) @@
  (PERMISSIONS.MERCHANT_PORTAL_READ :>
     [path |-> RESOURCES.MERCHANT_PORTAL, label |-> "Leasing Hub", parentPath |-> ""]) @@
  (PERMISSIONS.OPERATION_ANALYTICS_READ :>
     [path |-> RESOURCES.OPERATION_ANALYTICS, label |-> "Operations Overview", parentPath |-> RESOURCES.OPERATION_CENTER]) @@
  (PERMISSIONS.OPERATION_ARTICLE_READ :>
     [path |-> RESOURCES.OPERATION_ARTICLE, label |-> "Article Publishing", parentPath |-> RESOURCES.OPERATION_CENTER]) @@
  (PERMISSIONS.OPERATION_COMMENTS_READ :>
     [path |-> RESOURCES.OPERATION_COMMENTS, label |-> "Content Comments", parentPath |-> RESOURCES.OPERATION_CENTER]) @@
  (PERMISSIONS.EQUIPMENT_READ :>
     [path |-> RESOURCES.EQUIPMENT, label |-> "Equipment Management", parentPath |-> ""]) @@
  (PERMISSIONS.ENERGY_READ :>
     [path |-> RESOURCES.ENERGY, label |-> "Energy Consumption", parentPath |-> ""]) @@
  (PERMISSIONS.AUTHORIZATION_CENTER_READ :>
     [path |-> RESOURCES.AUTHORIZATION_CENTER, label |-> "Authorization Settings", parentPath |-> ""]) @@
  (PERMISSIONS.USER_PROFILE_READ :>
     [path |-> RESOURCES.USER_PROFILE, label |-> "User Profile", parentPath |-> ""])

\* a string the backend may issue that PERMISSIONS does not define
UnknownPermission == "reports.export"

\* a string that is no key of PERMISSION_ROUTE_MAP but a property every object
\* inherits: PERMISSION_ROUTE_MAP['constructor'] is a function, not undefined
InheritedKey == "constructor"

\* the strings a permission list may hold
PermissionStrings == Permission \cup {UnknownPermission, InheritedKey}

\* PERMISSION_ROUTE_MAP[permission]: <<>> for undefined; the inherited property
\* is truthy and its path is undefined
descriptorOf(permission) ==
  IF permission \in DOMAIN PERMISSION_ROUTE_MAP THEN <<PERMISSION_ROUTE_MAP[permission]>>
  ELSE IF permission = InheritedKey THEN <<[path |-> "undefined", label |-> "", parentPath |-> ""]>>
  ELSE <<>>

\* --------------------------------------------------------- router/routerMap.tsx

\* routerMap: the paths that have a lazily loaded page registered
routerMap ==
  { RESOURCES.DASHBOARD, RESOURCES.TENANTS_LIST, RESOURCES.TENANTS_CREATION,
    RESOURCES.PORTFOLIO_BUILDING, RESOURCES.PORTFOLIO_SPACES, RESOURCES.PORTFOLIO_PARKING,
    RESOURCES.REPAIR, RESOURCES.FINANCIALS_CONTRACT, RESOURCES.FINANCIALS_CONTRACT_DETAIL,
    RESOURCES.FINANCIALS_BILLING, RESOURCES.MERCHANT_PORTAL, RESOURCES.OPERATION_ANALYTICS,
    RESOURCES.OPERATION_ARTICLE, RESOURCES.OPERATION_COMMENTS, RESOURCES.EQUIPMENT,
    RESOURCES.ENERGY, RESOURCES.AUTHORIZATION_CENTER, RESOURCES.USER_PROFILE }

\* getRoute(path): the registered page of path, "" for undefined
getRoute(path) == IF path \in routerMap THEN path ELSE ""

\* a mutant forEach body that guards every route with the dashboard permission
routeGuardedByDashboard(permission) ==
  IF descriptorOf(permission) = <<>>
  THEN <<>>
  ELSE LET routeInfo == descriptorOf(permission)[1]
           element   == getRoute(routeInfo.path)
       IN  IF element = ""
           THEN <<>>
           ELSE << [path |-> routeInfo.path, element |-> element,
                    requiredPermission |-> PERMISSIONS.DASHBOARD_READ] >>

\* a mutant forEach body that pushes a route without a page for an entry it
\* cannot map
routeOrPlaceholder(permission) ==
  IF descriptorOf(permission) = <<>>
  THEN << [path |-> "", element |-> "", requiredPermission |-> permission] >>
  ELSE LET routeInfo == descriptorOf(permission)[1]
           element   == getRoute(routeInfo.path)
       IN  << [path |-> routeInfo.path, element |-> element,
               requiredPermission |-> permission] >>

\* the route of one permission as the forEach body pushes it, <<>> when the
\* body returns early
routeOfPermission(permission) ==
  IF descriptorOf(permission) = <<>>
  THEN <<>>
  ELSE LET routeInfo == descriptorOf(permission)[1]
           element   == getRoute(routeInfo.path)
       IN  IF element = ""
           THEN <<>>
           ELSE << [path |-> routeInfo.path, element |-> element,
                    requiredPermission |-> permission] >>

\* the forEach of a mutant that stops at the first permission it cannot map
RECURSIVE generateRoutesStopAtUnknown(_)
generateRoutesStopAtUnknown(perms) ==
  IF perms = <<>> THEN <<>>
  ELSE IF routeOfPermission(Head(perms)) = <<>> THEN <<>>
  ELSE routeOfPermission(Head(perms)) \o generateRoutesStopAtUnknown(Tail(perms))

\* permissions.forEach(...): one route pushed per surviving permission, in order
RECURSIVE forEachPermission(_)
forEachPermission(perms) ==
  IF perms = <<>> THEN <<>>
  ELSE routeOfPermission(Head(perms)) \o forEachPermission(Tail(perms))

generateRoutesFromPermissions(perms) == forEachPermission(perms)

\* ------------------------------------------------ utils/menuItemsGenerator.ts

\* a MenuItemForDisplay without a children property
Leaf(key, label, req) ==
  [key |-> key, label |-> label, requiredPermissions |-> req,
   hasChildren |-> FALSE, children |-> <<>>]

\* a MenuItemForDisplay with a children property
Group(key, label, req, children) ==
  [key |-> key, label |-> label, requiredPermissions |-> req,
   hasChildren |-> TRUE, children |-> children]

MENU_NODES ==
  << Leaf(RESOURCES.DASHBOARD, "Dashboard", <<PERMISSIONS.DASHBOARD_READ>>),
     Group(RESOURCES.TENANTS, "Tenants", <<>>,
       << Leaf(RESOURCES.TENANTS_LIST, "Tenant List", <<PERMISSIONS.TENANTS_READ>>),
          Leaf(RESOURCES.TENANTS_CREATION, "Create Tenant", <<PERMISSIONS.TENANTS_CREATE>>) >>),
     Group(RESOURCES.PORTFOLIO, "Portfolio Management", <<>>,
       << Leaf(RESOURCES.PORTFOLIO_BUILDING, "Building Management", <<PERMISSIONS.PORTFOLIO_BUILDING_READ>>),
          Leaf(RESOURCES.PORTFOLIO_SPACES, "Spaces Management", <<PERMISSIONS.PORTFOLIO_SPACES_READ>>),
          Leaf(RESOURCES.PORTFOLIO_PARKING, "Vehicle Information", <<PERMISSIONS.PORTFOLIO_PARKING_READ>>) >>),
     Leaf(RESOURCES.REPAIR, "Repair Management", <<PERMISSIONS.REPAIR_READ>>),
     Group(RESOURCES.FINANCIALS, "Financial Management", <<>>,
       << Leaf(RESOURCES.FINANCIALS_CONTRACT, "Contract Management", <<PERMISSIONS.FINANCIALS_CONTRACT_READ>>),
          Leaf(RESOURCES.FINANCIALS_CONTRACT_DETAIL, "Contract Detail", <<PERMISSIONS.FINANCIALS_CONTRACT_DETAIL_READ>>),
          Leaf(RESOURCES.FINANCIALS_BILLING, "Billing Management", <<PERMISSIONS.FINANCIALS_BILLING_READ>>) >>),
     Leaf(RESOURCES.MERCHANT_PORTAL, "Merchant Portal", <<PERMISSIONS.MERCHANT_PORTAL_READ>>),
     Group(RESOURCES.OPERATION_CENTER, "Operation Center", <<>>,
       << Leaf(RESOURCES.OPERATION_ANALYTICS, "Operations Analytics", <<PERMISSIONS.OPERATION_ANALYTICS_READ>>),
          Leaf(RESOURCES.OPERATION_ARTICLE, "Article Publishing", <<PERMISSIONS.OPERATION_ARTICLE_READ>>),
          Leaf(RESOURCES.OPERATION_COMMENTS, "Content Comments", <<PERMISSIONS.OPERATION_COMMENTS_READ>>) >>),
     Leaf(RESOURCES.EQUIPMENT, "Equipment Management", <<PERMISSIONS.EQUIPMENT_READ>>),
     Leaf(RESOURCES.ENERGY, "Energy Consumption", <<PERMISSIONS.ENERGY_READ>>),
     Leaf(RESOURCES.AUTHORIZATION_CENTER, "Authorization Center", <<PERMISSIONS.AUTHORIZATION_CENTER_READ>>),
     Leaf(RESOURCES.USER_PROFILE, "User Profile", <<PERMISSIONS.USER_PROFILE_READ>>) >>

\* item.requiredPermissions.length > 0 && requiredPermissions.some(p => permissions.includes(p))
hasMenuPermission(item, perms) ==
  /\ Len(item.requiredPermissions) > 0
  /\ \E i \in DOMAIN item.requiredPermissions : item.requiredPermissions[i] \in Range(perms)

\* a mutant that shows every node without required permissions, children or not
shouldShowEmptyGroups(item, children, perms) ==
  \/ hasMenuPermission(item, perms)
  \/ Len(item.requiredPermissions) = 0

\* a mutant that shows every node with a surviving child, whatever it requires
shouldShowAnyParent(item, children, perms) ==
  \/ hasMenuPermission(item, perms)
  \/ Len(children) > 0

\* shouldShow: children is the filtered child list
shouldShow(item, children, perms) ==
  \/ hasMenuPermission(item, perms)
  \/ (Len(item.requiredPermissions) = 0 /\ Len(children) > 0)

\* a mutant spread that pushes every kept item without children
spreadWithoutChildren(item, children) ==
  [item EXCEPT !.hasChildren = FALSE, !.children = <<>>]

\* { ...item, ...(children.length > 0 ? { children } : {}) }
spreadItem(item, children) ==
  IF Len(children) > 0
  THEN [item EXCEPT !.hasChildren = TRUE, !.children = children]
  ELSE item

\* a mutant reduce that puts each kept item in front of the accumulator
RECURSIVE filterMenuUnshift(_, _)
filterMenuUnshift(menuList, perms) ==
  IF Len(menuList) = 0 THEN <<>>
  ELSE LET acc      == filterMenuUnshift(SubSeq(menuList, 1, Len(menuList) - 1), perms)
           item     == menuList[Len(menuList)]
           children == IF item.hasChildren THEN filterMenuUnshift(item.children, perms) ELSE <<>>
       IN  IF shouldShow(item, children, perms)
           THEN <<spreadItem(item, children)>> \o acc
           ELSE acc

\* filterMenu: menuList.reduce over the items, left to right, children first
RECURSIVE filterMenu(_, _)
filterMenu(menuList, perms) ==
  IF Len(menuList) = 0 THEN <<>>
  ELSE LET acc      == filterMenu(SubSeq(menuList, 1, Len(menuList) - 1), perms)
           item     == menuList[Len(menuList)]
           children == IF item.hasChildren THEN filterMenu(item.children, perms) ELSE <<>>
       IN  IF shouldShow(item, children, perms)
           THEN Append(acc, spreadItem(item, children))
           ELSE acc

generateMenuFromPermissions(perms) == filterMenu(MENU_NODES, perms)

\* a mutant filter that assigns the filtered children to the items it visits
treeFilteredInPlace(menuList, perms) ==
  [i \in DOMAIN menuList |->
     IF menuList[i].hasChildren
     THEN [menuList[i] EXCEPT !.children = filterMenu(menuList[i].children, perms)]
     ELSE menuList[i]]

\* the tree handed to filterMenu as the call leaves it: the reduce starts from a
\* new array and pushes new objects made by the spread, nothing is assigned to
\* menuList, to an item or to a children array
treeAfterFilter(menuList, perms) == menuList

\* ------------------------------------------------- store/login/authSlice.ts

\* The auth state with the sessionStorage items its reducers write: token is ""
\* for null, ssToken is "" when the item 'token' is absent, ssPermissions.present
\* tells whether the item 'permissions' exists.
AuthState(tok, perms, ssTok, ssPerms) ==
  [token |-> tok, permissions |-> perms, ssToken |-> ssTok, ssPermissions |-> ssPerms]

NoItem == [present |-> FALSE, value |-> <<>>]

\* initialState: sessionStorage.getItem('token') || null,
\* JSON.parse(sessionStorage.getItem('permissions') || '[]')
initialState(ssTok, ssPerms) ==
  AuthState(ssTok, IF ssPerms.present THEN ssPerms.value ELSE <<>>, ssTok, ssPerms)

\* a mutant setToken that leaves sessionStorage alone
setTokenStoreOnly(st, payload) == [st EXCEPT !.token = payload]

setToken(st, payload) == [st EXCEPT !.token = payload, !.ssToken = payload]

clearToken(st) == [st EXCEPT !.token = "", !.ssToken = ""]

setPermissions(st, payload) ==
  [st EXCEPT !.permissions = payload, !.ssPermissions = [present |-> TRUE, value |-> payload]]

clearPermissions(st) == [st EXCEPT !.permissions = <<>>, !.ssPermissions = NoItem]

\* the slice reducer: createSlice({ name: 'auth', reducers }) answers the four
\* action types 'auth/<reducer>' and returns the state unchanged for any other
authReducer(st, type, payload) ==
  CASE type = "auth/setToken"         -> setToken(st, payload)
    [] type = "auth/clearToken"       -> clearToken(st)
    [] type = "auth/setPermissions"   -> setPermissions(st, payload)
    [] type = "auth/clearPermissions" -> clearPermissions(st)
    [] OTHER                          -> st

\* the auth state of the current state
Auth == AuthState(token, permissions, ssToken, ssPermissions)

\* the auth state is st
AuthIs(st) ==
  /\ token = st.token
  /\ permissions = st.permissions
  /\ ssToken = st.ssToken
  /\ ssPermissions = st.ssPermissions

\* the auth state becomes st
AuthBecomes(st) ==
  /\ token' = st.token
  /\ permissions' = st.permissions
  /\ ssToken' = st.ssToken
  /\ ssPermissions' = st.ssPermissions

\* store.dispatch(action)
Dispatch(type, payload) == AuthBecomes(authReducer(Auth, type, payload))

\* ------------------------------------------------------------ session

\* the credentials the login endpoint may return
Tokens == { "hdr.one.sig", "hdr.two.sig" }

\* the permissions the permissions endpoint may list
SessionPermissions == { PERMISSIONS.DASHBOARD_READ, PERMISSIONS.TENANTS_READ }

\* the addresses the browser may be pointed at
Addresses ==
  { "/login", "/", RESOURCES.DASHBOARD, RESOURCES.TENANTS_LIST, "/unknown-path" }

\* PrivateRoute: renders its children only when the user owns requiredPermission
PrivateRoute(requiredPermission) == requiredPermission \in Range(permissions)

\* the page the router renders at href: the route of the tree matching the
\* path, behind its PrivateRoute; "" when nothing is rendered
RenderedPage ==
  IF \E i \in DOMAIN routeTree :
       routeTree[i].path = href /\ PrivateRoute(routeTree[i].requiredPermission)
  THEN href
  ELSE ""

SessInit ==
  /\ AuthIs(initialState("", NoItem))
  /\ routeTree = <<>>
  /\ href = "/login"
  /\ rendered = ""
  /\ loginPc = "idle"
  /\ lastEvent = "load"

\* the browser loads the application at path: the store is created anew from
\* initialState, the router has not been built yet
LoadPage(path) ==
  /\ AuthBecomes(initialState(ssToken, ssPermissions))
  /\ routeTree' = <<>>
  /\ href' = path
  /\ rendered' = ""
  /\ loginPc' = "idle"

\* the user opens an address or reloads the page
OpenAddress ==
  /\ \E path \in Addresses : LoadPage(path)
  /\ lastEvent' = "load"

\* navigation inside the running application
Navigate ==
  /\ \E path \in Addresses \ {href} : href' = path
  /\ rendered' = ""
  /\ lastEvent' = "navigate"
  /\ UNCHANGED <<token, permissions, ssToken, ssPermissions, routeTree, loginPc>>

\* App: the router is created again from the permissions of the store
RebuildRouter ==
  /\ routeTree # generateRoutesFromPermissions(permissions)
  /\ routeTree' = generateRoutesFromPermissions(permissions)
  /\ rendered' = ""
  /\ lastEvent' = "router"
  /\ UNCHANGED <<token, permissions, ssToken, ssPermissions, href, loginPc>>

\* the router renders the current address
Render ==
  /\ lastEvent # "render"
  /\ rendered' = RenderedPage
  /\ lastEvent' = "render"
  /\ UNCHANGED <<token, permissions, ssToken, ssPermissions, routeTree, href, loginPc>>

\* Login.handleSubmit up to: await login(values)
SubmitLogin ==
  /\ href = "/login"
  /\ loginPc = "idle"
  /\ loginPc' = "login"
  /\ lastEvent' = "submit"
  /\ UNCHANGED <<token, permissions, ssToken, ssPermissions, routeTree, href, rendered>>

\* login resolves with a token that is present and not expired:
\* dispatch(setToken(token)), then await getUserPermissions()
LoginResolved ==
  /\ loginPc = "login"
  /\ \E tok \in Tokens : Dispatch("auth/setToken", tok)
  /\ loginPc' = "perms"
  /\ rendered' = ""
  /\ lastEvent' = "setToken"
  /\ UNCHANGED <<routeTree, href>>

\* login resolves without a token, or with an expired one: notify and return
LoginRefused ==
  /\ loginPc = "login"
  /\ loginPc' = "idle"
  /\ lastEvent' = "refused"
  /\ UNCHANGED <<token, permissions, ssToken, ssPermissions, routeTree, href, rendered>>

\* login rejects (or the token cannot be decoded): the outer catch runs
\* dispatch(clearToken()); dispatch(clearPermissions())
LoginRejected ==
  /\ loginPc = "login"
  /\ AuthBecomes(authReducer(authReducer(Auth, "auth/clearToken", <<>>),
                             "auth/clearPermissions", <<>>))
  /\ loginPc' = "idle"
  /\ rendered' = ""
  /\ lastEvent' = "loginFailed"
  /\ UNCHANGED <<routeTree, href>>

\* getUserPermissions resolves: dispatch(setPermissions(permissions)), navigate('/')
PermissionsResolved ==
  /\ loginPc = "perms"
  /\ \E list \in SeqsUpTo(SessionPermissions, MaxPermLen) :
       Dispatch("auth/setPermissions", list)
  /\ href' = "/"
  /\ loginPc' = "idle"
  /\ rendered' = ""
  /\ lastEvent' = "setPermissions"
  /\ UNCHANGED routeTree

\* getUserPermissions rejects: dispatch(clearToken()) and return
PermissionsRejected ==
  /\ loginPc = "perms"
  /\ Dispatch("auth/clearToken", <<>>)
  /\ loginPc' = "idle"
  /\ rendered' = ""
  /\ lastEvent' = "permissionsFailed"
  /\ UNCHANGED <<routeTree, href>>

\* the user logs out: token and permissions are cleared together
Logout ==
  /\ token # ""
  /\ loginPc = "idle"
  /\ AuthBecomes(authReducer(authReducer(Auth, "auth/clearToken", <<>>),
                             "auth/clearPermissions", <<>>))
  /\ rendered' = ""
  /\ lastEvent' = "logout"
  /\ UNCHANGED <<routeTree, href, loginPc>>

\* handleError, case status === 401, for a request of a page of the running
\* application: store.dispatch({ type: 'auth/logout' }), then
\* window.location.href = '/login', which loads the application at /login
Receive401 ==
  /\ loginPc = "idle"
  /\ LET st == authReducer(Auth, "auth/logout", <<>>)
     IN  /\ AuthBecomes(initialState(st.ssToken, st.ssPermissions))
         /\ routeTree' = <<>>
         /\ href' = "/login"
         /\ rendered' = ""
         /\ loginPc' = "idle"
  /\ lastEvent' = "401"

SpecSessionInit == SessInit /\ RoutesIdle /\ MenuIdle /\ TabsIdle /\ HttpIdle /\ ClockIdle

SpecSessionNext ==
  \/ OpenAddress /\ UNCHANGED <<routeVars, menuVars, tabVars, httpVars, now>>
  \/ Navigate /\ UNCHANGED <<routeVars, menuVars, tabVars, httpVars, now>>
  \/ RebuildRouter /\ UNCHANGED <<routeVars, menuVars, tabVars, httpVars, now>>
  \/ Render /\ UNCHANGED <<routeVars, menuVars, tabVars, httpVars, now>>
  \/ SubmitLogin /\ UNCHANGED <<routeVars, menuVars, tabVars, httpVars, now>>
  \/ LoginResolved /\ UNCHANGED <<routeVars, menuVars, tabVars, httpVars, now>>
  \/ LoginRefused /\ UNCHANGED <<routeVars, menuVars, tabVars, httpVars, now>>
  \/ LoginRejected /\ UNCHANGED <<routeVars, menuVars, tabVars, httpVars, now>>
  \/ PermissionsResolved /\ UNCHANGED <<routeVars, menuVars, tabVars, httpVars, now>>
  \/ PermissionsRejected /\ UNCHANGED <<routeVars, menuVars, tabVars, httpVars, now>>
  \/ Logout /\ UNCHANGED <<routeVars, menuVars, tabVars, httpVars, now>>
  \/ Receive401 /\ UNCHANGED <<routeVars, menuVars, tabVars, httpVars, now>>

SpecSession == SpecSessionInit /\ [][SpecSessionNext]_vars

\* ------------------------------------------------------------ C2

\* the permissions whose descriptor maps to the path
PermissionsOfPath(path) ==
  { p \in DOMAIN PERMISSION_ROUTE_MAP : PERMISSION_ROUTE_MAP[p].path = path }

\* C2: a page is rendered through the generated router only while the session
\* holds the permission mapped to its path, also when the route tree is older
\* than the permissions.
C2_RenderedOnlyIfHeld ==
  rendered # "" => \E p \in PermissionsOfPath(rendered) : p \in Range(permissions)

\* a render has happened at the path of a route of a stale tree whose permission
\* the session no longer holds
C2_Witness ==
  /\ lastEvent = "render"
  /\ rendered = ""
  /\ \E i \in DOMAIN routeTree :
       /\ routeTree[i].path = href
       /\ routeTree[i].requiredPermission \notin Range(permissions)

\* ------------------------------------------------------------ C10

\* C10: once a 401 response has been handled the token and the permissions are
\* cleared from the store and from session storage and the browser is at /login.
C10_LoggedOutAfter401 ==
  lastEvent = "401" =>
    /\ token = ""
    /\ permissions = <<>>
    /\ ssToken = ""
    /\ ~ssPermissions.present
    /\ href = "/login"

\* ------------------------------------------------------ store/tabs/tabsSlice.ts

HomeKey == "/dashboard"

\* the fixed home tab
HomeTab == [key |-> HomeKey, label |-> "Dashboard", closable |-> FALSE]

TabsState(activeKey, items) == [activeKey |-> activeKey, items |-> items]

\* the keys of a tab list
TabKeys(items) == { items[i].key : i \in DOMAIN items }

\* items.findIndex(item => item.key === key), 0 when there is none
TabIndex(items, key) ==
  IF key \in TabKeys(items)
  THEN CHOOSE i \in DOMAIN items :
         items[i].key = key /\ \A j \in 1..(i - 1) : items[j].key # key
  ELSE 0

\* the state the slice starts from when nothing is stored
DefaultTabs == TabsState(HomeKey, <<HomeTab>>)

\* ensureHomeTab: the home tab is put first when the list lacks it
ensureHomeTab(st) ==
  IF HomeKey \in TabKeys(st.items) THEN st
  ELSE [st EXCEPT !.items = <<HomeTab>> \o @]

\* ensureValidActiveKey: an active key without a tab falls back to the home tab
ensureValidActiveKey(st) ==
  IF st.activeKey \in TabKeys(st.items) THEN st
  ELSE [st EXCEPT !.activeKey = HomeKey]

\* loadTabsFromStorage: the stored state, validated, or the default state
loadTabsFromStorage(stored) ==
  IF stored.present
  THEN ensureValidActiveKey(ensureHomeTab(stored.value))
  ELSE DefaultTabs

\* a mutant addTab that pushes the tab whether or not its key is open
addTabAlwaysPush(st, tab) ==
  [st EXCEPT !.items = Append(@, tab), !.activeKey = tab.key]

\* addTab: push the tab unless one with its key exists, then activate its key
addTab(st, tab) ==
  IF tab.key \in TabKeys(st.items)
  THEN [st EXCEPT !.activeKey = tab.key]
  ELSE [st EXCEPT !.items = Append(@, tab), !.activeKey = tab.key]

\* setActiveTab: activeKey = key
setActiveTab(st, key) == [st EXCEPT !.activeKey = key]

\* the items without the one at index i
WithoutIndex(items, i) ==
  SubSeq(items, 1, i - 1) \o SubSeq(items, i + 1, Len(items))

\* a mutant removeTab that activates the first tab instead of the previous one
removeTabActivateFirst(st, key) ==
  LET i == TabIndex(st.items, key)
  IN  IF i = 0 \/ ~st.items[i].closable THEN st
      ELSE [items |-> WithoutIndex(st.items, i),
            activeKey |-> IF st.activeKey = key THEN st.items[1].key ELSE st.activeKey]

\* a mutant removeTab that leaves activeKey as it was
removeTabKeepActive(st, key) ==
  LET i == TabIndex(st.items, key)
  IN  IF i = 0 \/ ~st.items[i].closable THEN st
      ELSE [st EXCEPT !.items = WithoutIndex(st.items, i)]

\* removeTab: when the closed tab is the active one the previous tab becomes
\* active (the next one when there is no previous); the tab leaves the list
removeTab(st, key) ==
  LET i == TabIndex(st.items, key)
  IN  IF i = 0 \/ ~st.items[i].closable THEN st
      ELSE [items |-> WithoutIndex(st.items, i),
            activeKey |->
              IF st.activeKey # key THEN st.activeKey
              ELSE IF i > 1 THEN st.items[i - 1].key
              ELSE IF i < Len(st.items) THEN st.items[i + 1].key
              ELSE HomeKey]

\* a mutant removeOtherTabs that keeps the target tab alone
removeOtherTabsKeepTarget(st, key) ==
  [items |-> SelectSeq(st.items, LAMBDA t : t.key = key), activeKey |-> key]

\* removeOtherTabs: keep the target tab and the tabs that cannot be closed
removeOtherTabs(st, key) ==
  LET kept == SelectSeq(st.items, LAMBDA t : t.key = key \/ ~t.closable)
  IN  [items |-> kept,
       activeKey |-> IF key \in TabKeys(kept) THEN key ELSE HomeKey]

\* removeAllTabs: keep the tabs that cannot be closed
removeAllTabs(st) ==
  [items |-> SelectSeq(st.items, LAMBDA t : ~t.closable), activeKey |-> HomeKey]

\* saveTabsToStorage(state)
saveTabsToStorage(st) == [present |-> TRUE, value |-> st]

\* ------------------------------------------------------- hooks/useRouteSync.ts

\* findMenuItemByKey: depth-first, the first item with the key; <<>> for null
RECURSIVE findMenuItemByKey(_, _)
findMenuItemByKey(menuList, key) ==
  IF menuList = <<>> THEN <<>>
  ELSE LET item  == Head(menuList)
           found == IF item.hasChildren THEN findMenuItemByKey(item.children, key) ELSE <<>>
       IN  IF item.key = key THEN <<item>>
           ELSE IF found # <<>> THEN found
           ELSE findMenuItemByKey(Tail(menuList), key)

\* a mutant effect body that opens a tab for a path without a menu item
routeSyncOpensUnknown(st, currentPath) ==
  addTab(st, [key |-> currentPath, label |-> currentPath, closable |-> TRUE])

\* the body of the effect of useRouteSync: the tabs state after its dispatch
routeSync(st, currentPath) ==
  LET menuItem == findMenuItemByKey(MENU_NODES, currentPath)
  IN  IF menuItem # <<>>
      THEN addTab(st, [key |-> menuItem[1].key, label |-> menuItem[1].label,
                       closable |-> menuItem[1].key # "/dashboard"])
      ELSE setActiveTab(st, "/dashboard")

\* ------------------------------------------------------- utils/http/http.ts

ErrorType ==
  [ NETWORK_ERROR  |-> "NETWORK_ERROR",
    TIMEOUT_ERROR  |-> "TIMEOUT_ERROR",
    SERVER_ERROR   |-> "SERVER_ERROR",
    CLIENT_ERROR   |-> "CLIENT_ERROR",
    BUSINESS_ERROR |-> "BUSINESS_ERROR",
    UNAUTHORIZED   |-> "UNAUTHORIZED",
    FORBIDDEN      |-> "FORBIDDEN" ]

\* what comes back for one attempt: no response at all, with the code of the
\* AxiosError, or a response with its status and body; hasCode says whether the
\* body is an object with a 'code' property, dataCode is that property
NoResponse(code) ==
  [response |-> FALSE, code |-> code, status |-> 0, hasCode |-> FALSE, dataCode |-> 0]

Response(status, hasCode, dataCode) ==
  [response |-> TRUE, code |-> "", status |-> status, hasCode |-> hasCode,
   dataCode |-> dataCode]

\* defaultRetryConfig.maxRetries
maxRetries == 3

\* defaultRetryConfig.retryDelay
retryDelay == 1000

\* a mutant retry condition that re-sends after every failure
retryEveryError(error) == TRUE

\* defaultRetryConfig.retryCondition
retryCondition(error) ==
  ~error.response \/ (error.response /\ error.status >= 500 /\ error.status < 600)

\* a mutant that takes every envelope code below 500 for a success
isRequestSuccessBelow500(statusCode) == statusCode >= 200 /\ statusCode < 500

isRequestSuccess(statusCode) == statusCode >= 200 /\ statusCode < 300

isClientError(statusCode) == statusCode >= 400 /\ statusCode < 500

isServerError(statusCode) == statusCode >= 500 /\ statusCode < 600

\* the status check of the axios instance: only 2xx responses are fulfilled
validateStatus(status) == status >= 200 /\ status < 300

HttpError(type, code, originalError) ==
  [kind |-> "HttpError", type |-> type, code |-> code, originalError |-> originalError]

\* a mutant handleError without the cases for 401 and 403
handleErrorWithoutAuthCases(error) ==
  IF ~error.response
  THEN IF error.code = "ECONNABORTED"
       THEN HttpError(ErrorType.TIMEOUT_ERROR, "TIMEOUT", <<error>>)
       ELSE HttpError(ErrorType.NETWORK_ERROR, "NETWORK_ERROR", <<error>>)
  ELSE IF isServerError(error.status)
       THEN HttpError(ErrorType.SERVER_ERROR, error.status, <<error>>)
       ELSE HttpError(ErrorType.CLIENT_ERROR, error.status, <<error>>)

\* handleError: the HttpError built from an AxiosError
handleError(error) ==
  IF ~error.response
  THEN IF error.code = "ECONNABORTED"
       THEN HttpError(ErrorType.TIMEOUT_ERROR, "TIMEOUT", <<error>>)
       ELSE HttpError(ErrorType.NETWORK_ERROR, "NETWORK_ERROR", <<error>>)
  ELSE CASE error.status = 401 -> HttpError(ErrorType.UNAUTHORIZED, error.status, <<error>>)
         [] error.status = 403 -> HttpError(ErrorType.FORBIDDEN, error.status, <<error>>)
         [] error.status \notin {401, 403} /\ isClientError(error.status) ->
              HttpError(ErrorType.CLIENT_ERROR, error.status, <<error>>)
         [] isServerError(error.status) ->
              HttpError(ErrorType.SERVER_ERROR, error.status, <<error>>)
         [] OTHER -> HttpError(ErrorType.CLIENT_ERROR, error.status, <<error>>)

\* a mutant effect that treats a 403 as it treats a 401
handleErrorEffectAlso403(error) ==
  IF error.response /\ error.status \in {401, 403}
  THEN Receive401
  ELSE UNCHANGED sessVars

\* what handleError does besides building the error: for a 401 the dispatch of
\* 'auth/logout' and window.location.href = '/login'
handleErrorEffect(error) ==
  IF error.response /\ error.status = 401
  THEN Receive401
  ELSE UNCHANGED sessVars

\* a mutant stop test that forgets the retry counter
stopOnConditionOnly(count, error) == ~retryCondition(error)

\* retryRequest: retryCount >= maxRetries || !retryCondition(error) || !error.config
\* (every AxiosError of a sent request carries its config)
stopRetrying(count, error) == count >= maxRetries \/ ~retryCondition(error)

\* retryDelay * Math.pow(2, retryCount)
retryBackoff(count) == retryDelay * (2 ^ count)

\* the fulfilled handler of the response interceptor: the envelope is rejected as
\* a business error when it has a code that is no success, else the data is returned
responseFulfilled(response) ==
  IF response.hasCode /\ ~isRequestSuccess(response.dataCode)
  THEN HttpError(ErrorType.BUSINESS_ERROR, response.dataCode, <<>>)
  ELSE [kind |-> "data", data |-> response]

\* the outcomes the server and the network give an attempt
Outcomes ==
  { NoResponse("ECONNABORTED"), NoResponse("ERR_NETWORK") }
  \cup { Response(st, FALSE, 0) : st \in {204, 304, 401, 403, 404, 500, 503} }
  \cup { Response(200, TRUE, c) : c \in {199, 200, 299, 300, 401, 500} }

\* http.request(config) is called by a page of the running application
HttpCall ==
  /\ hpc \in {"idle", "resolved", "rejected"}
  /\ hpc' = "request"
  /\ attempts' = <<>> /\ retryCount' = 0 /\ backoff' = 0 /\ authHeader' = <<>>
  /\ frames' = 0 /\ settled' = [kind |-> "none"] /\ handled' = 0
  /\ UNCHANGED sessVars

\* the request interceptor: the token of the store goes into the Authorization
\* header, the request is sent
RequestInterceptor ==
  /\ hpc = "request"
  /\ authHeader' = IF token # "" THEN <<"Bearer", token>> ELSE authHeader
  /\ hpc' = "inflight"
  /\ UNCHANGED <<attempts, retryCount, backoff, frames, settled, handled>>
  /\ UNCHANGED sessVars

\* the response interceptor for the outcome of the attempt in flight: the
\* fulfilled handler for a 2xx status; else the rejected handler, which calls
\* retryRequest and either re-sends after the backoff delay or handles the error.
\* handled counts the runs of logError and showErrorMessage for the call
ResponseInterceptor ==
  /\ hpc = "inflight"
  /\ \E o \in Outcomes :
       /\ attempts' = Append(attempts, o)
       /\ IF o.response /\ validateStatus(o.status)
          THEN /\ settled' = responseFulfilled(o)
               /\ handled' = IF responseFulfilled(o).kind = "HttpError"
                             THEN handled + 1 ELSE handled
               /\ hpc' = "unwind" /\ frames' = Len(attempts)
               /\ UNCHANGED <<retryCount, backoff>>
               /\ UNCHANGED sessVars
          ELSE IF stopRetrying(retryCount, o)
          THEN /\ settled' = handleError(o)
               /\ handled' = handled + 1
               /\ handleErrorEffect(o)
               /\ hpc' = "unwind" /\ frames' = Len(attempts)
               /\ UNCHANGED <<retryCount, backoff>>
          ELSE /\ retryCount' = retryCount + 1
               /\ backoff' = retryBackoff(retryCount)
               /\ hpc' = "request"
               /\ UNCHANGED <<frames, settled, handled>>
               /\ UNCHANGED sessVars
  /\ UNCHANGED authHeader

\* the rejected handler of an earlier attempt, awaiting retryRequest: a result is
\* returned as it is; a rejection is caught and the error of that earlier
\* attempt is handled and rejected in its place
RetryFrameReturns ==
  /\ hpc = "unwind" /\ frames > 0
  /\ IF settled.kind = "data"
     THEN /\ UNCHANGED <<settled, handled>>
          /\ UNCHANGED sessVars
     ELSE /\ settled' = handleError(attempts[frames])
          /\ handled' = handled + 1
          /\ handleErrorEffect(attempts[frames])
  /\ frames' = frames - 1
  /\ UNCHANGED <<hpc, attempts, retryCount, backoff, authHeader>>

\* the promise of http.request settles for the caller
CallerReceives ==
  /\ hpc = "unwind" /\ frames = 0
  /\ hpc' = IF settled.kind = "data" THEN "resolved" ELSE "rejected"
  /\ UNCHANGED <<attempts, retryCount, backoff, authHeader, frames, settled, handled>>
  /\ UNCHANGED sessVars

\* -------------------------------------- types/jwtPayload.ts, authSelectors.ts

\* the exp claim in the payload of each credential; has is FALSE without one
JwtPayloadExp ==
  "hdr.one.sig" :> [has |-> TRUE, exp |-> 2] @@
  "hdr.two.sig" :> [has |-> FALSE, exp |-> 0]

\* JwtToken.isExpired(nowSeconds)
isExpired(jwt, nowSeconds) ==
  IF ~jwt.has THEN FALSE ELSE nowSeconds >= jwt.exp

\* selectIsTokenExpired: no token, or an expired one
selectIsTokenExpired(tok, nowSeconds) ==
  IF tok = "" THEN TRUE
  ELSE IF tok \notin DOMAIN JwtPayloadExp THEN TRUE
  ELSE isExpired(JwtPayloadExp[tok], nowSeconds)

\* selectIsAuthenticated: Boolean(token && !isExpired)
selectIsAuthenticated(tok, nowSeconds) ==
  tok # "" /\ ~selectIsTokenExpired(tok, nowSeconds)

\* --------------------------------------------------- utils/RequireAuth.tsx

\* three segments of [A-Za-z0-9-_]+ joined by dots
isJwtFormat(tok) == tok \in {"hdr.one.sig", "hdr.two.sig"}

\* isValidToken: a non-blank string in JWT format
isValidToken(tok) == tok # "" /\ isJwtFormat(tok)

\* a mutant guard that only protects: it leaves a logged-in user on /login
RequireAuthProtectOnly(allowAnonymous, redirectPath, tok, path) ==
  IF ~allowAnonymous /\ ~isValidToken(tok) THEN redirectPath ELSE path

\* the effect of RequireAuth: the path after it has run at path
RequireAuth(allowAnonymous, redirectPath, tok, path) ==
  LET isAuthenticated == isValidToken(tok)
  IN  IF ~allowAnonymous /\ ~isAuthenticated THEN redirectPath
      ELSE IF allowAnonymous /\ isAuthenticated THEN redirectPath
      ELSE path

\* the router wraps the login route in RequireAuth(allowAnonymous, '/') and
\* every other route in RequireAuth(not anonymous, '/login')
GuardedPath(tok, path) ==
  IF path = "/login"
  THEN RequireAuth(TRUE, "/", tok, path)
  ELSE RequireAuth(FALSE, "/login", tok, path)

\* the effect of the RequireAuth of the current route navigates
RequireAuthEffect ==
  /\ GuardedPath(token, href) # href
  /\ href' = GuardedPath(token, href)
  /\ rendered' = ""
  /\ lastEvent' = "guard"
  /\ UNCHANGED <<token, permissions, ssToken, ssPermissions, routeTree, loginPc>>

\* ------------------------------------------------------------ route spec

RoutesInit ==
  /\ permsIn \in SeqsUpTo(PermissionStrings, MaxPermLen)
  /\ routesOut = <<>>
  /\ rpc = "input"

GenerateRoutes ==
  /\ rpc = "input"
  /\ routesOut' = generateRoutesFromPermissions(permsIn)
  /\ rpc' = "done"
  /\ UNCHANGED permsIn

SpecRoutesInit == RoutesInit /\ MenuIdle /\ SessIdle /\ TabsIdle /\ HttpIdle /\ ClockIdle

SpecRoutesNext == GenerateRoutes /\ UNCHANGED <<menuVars, sessVars, tabVars, httpVars, now>>

SpecRoutes == SpecRoutesInit /\ [][SpecRoutesNext]_vars

\* ------------------------------------------------------------ C1

\* the paths the descriptor table and the page registry give a permission list
ExpectedPaths(perms) ==
  { PERMISSION_ROUTE_MAP[p].path :
      p \in { q \in Range(perms) : /\ q \in DOMAIN PERMISSION_ROUTE_MAP
                                   /\ PERMISSION_ROUTE_MAP[q].path \in routerMap } }

\* C1: the paths of the generated routes are exactly the descriptor paths of the
\* listed permissions that have a descriptor and a registered page; an empty
\* permission list gives an empty route list.
C1_RoutesAreImage ==
  rpc = "done" =>
    /\ { routesOut[i].path : i \in DOMAIN routesOut } = ExpectedPaths(permsIn)
    /\ (permsIn = <<>> => routesOut = <<>>)

\* a list holding an unknown string and a mapped permission has been processed
C1_Witness ==
  /\ rpc = "done"
  /\ UnknownPermission \in Range(permsIn)
  /\ routesOut # <<>>

\* ------------------------------------------------------------ C17

\* the entry has a descriptor of its own and the descriptor's path has a page
Routable(p) == p \in DOMAIN PERMISSION_ROUTE_MAP /\ PERMISSION_ROUTE_MAP[p].path \in routerMap

\* C17: the generator returns for every list, and what it returns is, in the
\* order of the list, one route for each entry that has a descriptor and a page,
\* guarded by that entry: the entries without are skipped and nothing else is lost
C17_UnmappedEntriesSkipped ==
  rpc = "done" =>
    LET kept == SelectSeq(permsIn, Routable)
    IN  /\ Len(routesOut) = Len(kept)
        /\ \A i \in DOMAIN kept :
             /\ routesOut[i].path = PERMISSION_ROUTE_MAP[kept[i]].path
             /\ routesOut[i].requiredPermission = kept[i]

\* a list of an entry without a descriptor of its own followed by a permission
\* with a page has given the one route of the second entry
C17_Witness ==
  /\ rpc = "done" /\ Len(permsIn) = 2
  /\ permsIn[1] \in {UnknownPermission, InheritedKey}
  /\ Routable(permsIn[2])
  /\ Len(routesOut) = 1 /\ routesOut[1].requiredPermission = permsIn[2]

\* ------------------------------------------------------------ menu spec

\* keys of the nodes of a generated tree, by preorder position
NodeKey == << "/n1", "/n2", "/n3", "/n4", "/n5", "/n6", "/n7", "/n8" >>

\* the required-permission lists of the nodes of a generated tree
TreeRequired == { <<>>, <<PERMISSIONS.DASHBOARD_READ>>, <<PERMISSIONS.TENANTS_READ>> }

\* the permissions a session filtering a generated tree may hold
TreePermissions == { PERMISSIONS.DASHBOARD_READ, PERMISSIONS.TENANTS_READ }

\* Forest(n, start): the sibling lists of n nodes in all, keyed from start on;
\* Tree(k, start): the nodes with k nodes in all
RECURSIVE Forest(_, _), Tree(_, _)
Forest(n, start) ==
  IF n = 0 THEN { <<>> }
  ELSE UNION { { <<t>> \o f : t \in Tree(k, start), f \in Forest(n - k, start + k) }
               : k \in 1..n }
Tree(k, start) ==
  LET withChildren == { Group(NodeKey[start], "node", r, c) :
                          r \in TreeRequired, c \in Forest(k - 1, start + 1) }
      without      == { Leaf(NodeKey[start], "node", r) : r \in TreeRequired }
  IN  IF k = 1 THEN withChildren \cup without ELSE withChildren

MenuTrees == UNION { Forest(n, 1) : n \in 0..MaxNodes }

MenuInit ==
  \/ /\ menuIn = MENU_NODES
     /\ menuPerms \in SeqsUpTo(PermissionStrings, MaxPermLen)
     /\ menuOut = <<>> /\ menuPrev = <<>>
     /\ mpc = "static"
  \/ /\ menuIn \in MenuTrees
     /\ menuPerms \in SeqsUpTo(TreePermissions, MaxPermLen)
     /\ menuOut = <<>> /\ menuPrev = <<>>
     /\ mpc = "tree"

\* generateMenuFromPermissions(permissions)
GenerateMenu ==
  /\ mpc = "static"
  /\ menuOut' = generateMenuFromPermissions(menuPerms)
  /\ menuIn' = treeAfterFilter(menuIn, menuPerms)
  /\ mpc' = "doneStatic"
  /\ UNCHANGED <<menuPerms, menuPrev>>

\* a second call with the same permissions, on the tree as the first call left it
GenerateMenuAgain ==
  /\ mpc = "doneStatic"
  /\ menuPrev' = menuOut
  /\ menuOut' = filterMenu(menuIn, menuPerms)
  /\ menuIn' = treeAfterFilter(menuIn, menuPerms)
  /\ mpc' = "doneAgain"
  /\ UNCHANGED menuPerms

\* filterMenu(menuList) on a tree other than MENU_NODES
FilterTree ==
  /\ mpc = "tree"
  /\ menuOut' = filterMenu(menuIn, menuPerms)
  /\ menuIn' = treeAfterFilter(menuIn, menuPerms)
  /\ mpc' = "doneTree"
  /\ UNCHANGED <<menuPerms, menuPrev>>

SpecMenuInit == MenuInit /\ RoutesIdle /\ SessIdle /\ TabsIdle /\ HttpIdle /\ ClockIdle

SpecMenuNext ==
  \/ GenerateMenu /\ UNCHANGED <<routeVars, sessVars, tabVars, httpVars, now>>
  \/ GenerateMenuAgain /\ UNCHANGED <<routeVars, sessVars, tabVars, httpVars, now>>
  \/ FilterTree /\ UNCHANGED <<routeVars, sessVars, tabVars, httpVars, now>>

SpecMenu == SpecMenuInit /\ [][SpecMenuNext]_vars

\* ------------------------------------------------------------ C3, C4

\* every node of a tree, at every depth
RECURSIVE AllNodes(_)
AllNodes(list) ==
  UNION { {list[i]} \cup AllNodes(list[i].children) : i \in DOMAIN list }

\* the keys that occur in a tree, at every depth
KeysIn(list) == { n.key : n \in AllNodes(list) }

\* one of the node's required permissions is held
Held(n, perms) == \E i \in DOMAIN n.requiredPermissions : n.requiredPermissions[i] \in Range(perms)

\* the node or one of its descendants has a held required permission
Satisfies(n, perms) == \E d \in AllNodes(<<n>>) : Held(d, perms)

\* the node is to be kept: a held permission, or no required permission and a kept child
RECURSIVE Keep(_, _)
Keep(n, perms) ==
  \/ Held(n, perms)
  \/ /\ n.requiredPermissions = <<>>
     /\ \E i \in DOMAIN n.children : Keep(n.children[i], perms)

KeepSeq(list, perms) == SelectSeq(list, LAMBDA n : Keep(n, perms))

\* C3: in the menu generated from MENU_NODES a node is present iff one of its
\* required permissions is held, or it requires none and one of its children is
\* present; every other node is absent.
C3_MenuKeepsIff ==
  mpc = "doneStatic" =>
    \A n \in AllNodes(MENU_NODES) :
      n.key \in KeysIn(menuOut) <=>
        \/ Held(n, menuPerms)
        \/ /\ n.requiredPermissions = <<>>
           /\ \E i \in DOMAIN n.children : n.children[i].key \in KeysIn(menuOut)

\* one group is kept through a child while another group is dropped
C3_Witness ==
  /\ mpc = "doneStatic"
  /\ RESOURCES.TENANTS \in KeysIn(menuOut)
  /\ RESOURCES.TENANTS_CREATION \notin KeysIn(menuOut)
  /\ RESOURCES.PORTFOLIO \notin KeysIn(menuOut)

\* out lists, in order, the nodes of the sibling list in that satisfy the
\* predicate themselves or through a descendant, and so on below each of them
RECURSIVE SatisfyingLevel(_, _, _)
SatisfyingLevel(in, out, perms) ==
  LET sat == SelectSeq(in, LAMBDA n : Satisfies(n, perms))
  IN  /\ Len(out) = Len(sat)
      /\ \A i \in DOMAIN sat :
           /\ out[i].key = sat[i].key
           /\ SelectSeq(sat[i].children, LAMBDA c : Satisfies(c, perms)) # <<>> =>
                SatisfyingLevel(sat[i].children, out[i].children, perms)

\* C4 as stated: for every menu tree a node appears in the filtered output iff it
\* or some descendant has a required permission the session holds.
C4_AppearsIffSatisfies ==
  mpc \in {"doneStatic", "doneTree"} => SatisfyingLevel(menuIn, menuOut, menuPerms)

\* out is the filtered form of the sibling list in: the kept nodes in order, and
\* below each kept node with a kept child the filtered form of its children
RECURSIVE FilteredLevel(_, _, _)
FilteredLevel(in, out, perms) ==
  LET kept == KeepSeq(in, perms)
  IN  /\ Len(out) = Len(kept)
      /\ \A i \in DOMAIN kept :
           /\ out[i].key = kept[i].key
           /\ KeepSeq(kept[i].children, perms) # <<>> =>
                FilteredLevel(kept[i].children, out[i].children, perms)

\* C4 amended: for every menu tree, filtering a sibling list keeps a node iff one
\* of its required permissions is held, or it requires none and one of its
\* children is kept.
C4_FilterKeepsIff ==
  mpc \in {"doneStatic", "doneTree"} => FilteredLevel(menuIn, menuOut, menuPerms)

\* a node whose own permission is not held is dropped although a child qualifies
C4_Witness ==
  /\ mpc = "doneTree"
  /\ \E n \in AllNodes(menuIn) :
       /\ Satisfies(n, menuPerms)
       /\ ~Keep(n, menuPerms)
       /\ n.key \notin KeysIn(menuOut)


\* ------------------------------------------------------------ C18

\* C18: the menu generated from MENU_NODES holds, at no depth, a node with an
\* empty required-permission list and no children; from the one permission
\* 'dashboard.read' it is the Dashboard leaf alone
C18_NoEmptyGroups ==
  mpc = "doneStatic" =>
    /\ \A n \in AllNodes(menuOut) :
         n.requiredPermissions = <<>> => (n.hasChildren /\ Len(n.children) > 0)
    /\ menuPerms = <<"dashboard.read">> =>
         /\ Len(menuOut) = 1
         /\ menuOut[1].key = "/dashboard"
         /\ menuOut[1].requiredPermissions = <<"dashboard.read">>
         /\ ~menuOut[1].hasChildren

\* a group is in the menu with one of its two children, the other groups are not
C18_Witness ==
  /\ mpc = "doneStatic"
  /\ menuPerms = <<"dashboard.read", "tenants.create">>
  /\ Len(menuOut) = 2
  /\ menuOut[2].key = "/tenants" /\ Len(menuOut[2].children) = 1

\* ------------------------------------------------------------ C19

\* the place of the key in the sibling list, 0 when it is not there
PlaceOf(list, key) ==
  IF \E i \in DOMAIN list : list[i].key = key
  THEN CHOOSE i \in DOMAIN list : list[i].key = key
  ELSE 0

\* the nodes of out are nodes of the sibling list in, in the order they have
\* there, and so are the children of each of them below the node they come from
RECURSIVE InOrderOf(_, _)
InOrderOf(in, out) ==
  /\ \A i \in DOMAIN out : PlaceOf(in, out[i].key) > 0
  /\ \A i, j \in DOMAIN out : i < j => PlaceOf(in, out[i].key) < PlaceOf(in, out[j].key)
  /\ \A i \in DOMAIN out : InOrderOf(in[PlaceOf(in, out[i].key)].children, out[i].children)

\* C19: at every level of the filtered menu the kept nodes stand in the relative
\* order they have in the tree that was filtered
C19_OrderPreserved ==
  mpc \in {"doneStatic", "doneTree"} => InOrderOf(menuIn, menuOut)

\* the permissions are listed against the order of the tree, and the menu has
\* the two nodes in the order of the tree
C19_Witness ==
  /\ mpc = "doneStatic"
  /\ menuPerms = <<"energy.read", "dashboard.read">>
  /\ Len(menuOut) = 2
  /\ menuOut[1].key = "/dashboard" /\ menuOut[2].key = "/energy"

\* ------------------------------------------------------------ C20

ClickKeys == {RESOURCES.DASHBOARD, RESOURCES.TENANTS_LIST, RESOURCES.ENERGY}

\* the paths the location can be set to from outside the tab bar: two pages,
\* the home page, a group node of the menu and a path of no menu item
LocationPaths ==
  {RESOURCES.DASHBOARD, RESOURCES.TENANTS_LIST, RESOURCES.ENERGY,
   RESOURCES.TENANTS, "/unknown-path"}

\* what the sessionStorage item can hold when the page loads: nothing, a saved
\* state, a state without the home tab, a state whose active key has no tab
StoredStates ==
  { [present |-> FALSE, value |-> TabsState("", <<>>)],
    saveTabsToStorage(TabsState(RESOURCES.ENERGY,
      <<HomeTab, [key |-> RESOURCES.ENERGY, label |-> "Energy Consumption", closable |-> TRUE]>>)),
    saveTabsToStorage(TabsState(RESOURCES.ENERGY,
      <<[key |-> RESOURCES.ENERGY, label |-> "Energy Consumption", closable |-> TRUE]>>)),
    saveTabsToStorage(TabsState(RESOURCES.REPAIR, <<HomeTab>>)) }

\* the key of the tab immediately before the tab with the key, "" without one
KeyBefore(items, key) ==
  LET i == TabIndex(items, key)
  IN  IF i > 1 THEN items[i - 1].key ELSE ""

\* the record of a dispatch, taken from the state it is applied to
OpRecord(op, key) ==
  [op |-> op, key |-> key, wasActive |-> (tabs.activeKey = key /\ key \in TabKeys(tabs.items)),
   before |-> KeyBefore(tabs.items, key), existed |-> TabKeys(tabs.items)]

\* a dispatch to the tabs slice: the new state is stored and saved
TabsBecome(st, op, key) ==
  /\ tabs' = st
  /\ tabsStorage' = saveTabsToStorage(st)
  /\ lastOp' = OpRecord(op, key)

\* no effect is waiting to run
Quiescent == tabs.activeKey = navDep /\ pathname = syncDep

\* the page loads at a path: the slice restores its state, both effects are due
TabsInit ==
  /\ tabsStorage \in StoredStates
  /\ tabs = loadTabsFromStorage(tabsStorage)
  /\ pathname \in LocationPaths
  /\ navDep = "" /\ syncDep = ""
  /\ lastOp = [op |-> "load", key |-> "", wasActive |-> FALSE, before |-> "", existed |-> {}]

\* the page is loaded again at the current path with what the slice saved
ReloadPage ==
  /\ Quiescent
  /\ tabs' = loadTabsFromStorage(tabsStorage)
  /\ navDep' = "" /\ syncDep' = ""
  /\ lastOp' = [op |-> "load", key |-> "", wasActive |-> FALSE, before |-> "", existed |-> {}]
  /\ UNCHANGED <<tabsStorage, pathname>>

\* the effect of TabsManager on [activeKey]: navigate(activeKey, {replace: true})
TabsManagerEffect ==
  /\ tabs.activeKey # navDep
  /\ navDep' = tabs.activeKey
  /\ pathname' = IF tabs.activeKey # "" THEN tabs.activeKey ELSE pathname
  /\ UNCHANGED <<tabs, tabsStorage, syncDep, lastOp>>

\* the effect of useRouteSync on [location.pathname]
RouteSyncEffect ==
  /\ pathname # syncDep
  /\ syncDep' = pathname
  /\ TabsBecome(routeSync(tabs, pathname),
                IF findMenuItemByKey(MENU_NODES, pathname) # <<>> THEN "syncKnown" ELSE "syncUnknown",
                pathname)
  /\ UNCHANGED <<pathname, navDep>>

\* a click on a sidebar entry dispatches addTab for it
MenuClick ==
  /\ Quiescent
  /\ \E key \in ClickKeys :
       LET menuItem == findMenuItemByKey(MENU_NODES, key)[1]
       IN  TabsBecome(addTab(tabs, [key |-> menuItem.key, label |-> menuItem.label,
                                    closable |-> menuItem.key # HomeKey]),
                      "addTab", key)
  /\ UNCHANGED <<pathname, navDep, syncDep>>

\* handleTabChange: a click on a tab other than the active one
SwitchTab ==
  /\ Quiescent
  /\ \E key \in TabKeys(tabs.items) :
       /\ key # tabs.activeKey
       /\ TabsBecome(setActiveTab(tabs, key), "setActiveTab", key)
  /\ UNCHANGED <<pathname, navDep, syncDep>>

\* the close button of a closable tab dispatches removeTab
CloseTab ==
  /\ Quiescent
  /\ \E i \in DOMAIN tabs.items :
       /\ tabs.items[i].closable
       /\ TabsBecome(removeTab(tabs, tabs.items[i].key), "removeTab", tabs.items[i].key)
  /\ UNCHANGED <<pathname, navDep, syncDep>>

\* the context menu of a tab: close the other tabs
CloseOtherTabs ==
  /\ Quiescent
  /\ \E key \in TabKeys(tabs.items) :
       TabsBecome(removeOtherTabs(tabs, key), "removeOtherTabs", key)
  /\ UNCHANGED <<pathname, navDep, syncDep>>

\* the context menu of a tab: close all tabs
CloseAllTabs ==
  /\ Quiescent
  /\ TabsBecome(removeAllTabs(tabs), "removeAllTabs", "")
  /\ UNCHANGED <<pathname, navDep, syncDep>>

\* the location changes from outside the tab bar (address bar, history, link)
LocationChange ==
  /\ Quiescent
  /\ \E path \in LocationPaths : path # pathname /\ pathname' = path
  /\ UNCHANGED <<tabs, tabsStorage, navDep, syncDep, lastOp>>

SpecTabsInit == TabsInit /\ RoutesIdle /\ MenuIdle /\ SessIdle /\ HttpIdle /\ ClockIdle

SpecTabsNext ==
  \/ ReloadPage /\ UNCHANGED <<routeVars, menuVars, sessVars, httpVars, now>>
  \/ TabsManagerEffect /\ UNCHANGED <<routeVars, menuVars, sessVars, httpVars, now>>
  \/ RouteSyncEffect /\ UNCHANGED <<routeVars, menuVars, sessVars, httpVars, now>>
  \/ MenuClick /\ UNCHANGED <<routeVars, menuVars, sessVars, httpVars, now>>
  \/ SwitchTab /\ UNCHANGED <<routeVars, menuVars, sessVars, httpVars, now>>
  \/ CloseTab /\ UNCHANGED <<routeVars, menuVars, sessVars, httpVars, now>>
  \/ CloseOtherTabs /\ UNCHANGED <<routeVars, menuVars, sessVars, httpVars, now>>
  \/ CloseAllTabs /\ UNCHANGED <<routeVars, menuVars, sessVars, httpVars, now>>
  \/ LocationChange /\ UNCHANGED <<routeVars, menuVars, sessVars, httpVars, now>>

SpecTabs == SpecTabsInit /\ [][SpecTabsNext]_vars

\* ------------------------------------------------------------ C5

\* C5: in every state of the tabs slice, a restored one included, the item list
\* holds a tab with key '/dashboard' and that tab is not closable
C5_HomeTabKept ==
  \E i \in DOMAIN tabs.items :
    tabs.items[i].key = HomeKey /\ ~tabs.items[i].closable

\* closing the others from a closable tab has run and left that tab and the home tab
C5_Witness ==
  /\ lastOp.op = "removeOtherTabs" /\ lastOp.key # HomeKey
  /\ Cardinality(lastOp.existed) > 2
  /\ Len(tabs.items) = 2
  /\ C5_HomeTabKept

\* ------------------------------------------------------------ C6

\* C6: after removeTab closes the active tab, activeKey is the key of a tab that
\* was open before the close and is still open; a state with tabs never has an
\* empty activeKey or one without a tab
C6_ActiveKeyValid ==
  /\ tabs.items # <<>> => tabs.activeKey # "" /\ tabs.activeKey \in TabKeys(tabs.items)
  /\ (lastOp.op = "removeTab" /\ lastOp.wasActive) =>
        /\ tabs.activeKey \in lastOp.existed
        /\ tabs.activeKey \in TabKeys(tabs.items)
        /\ tabs.activeKey # lastOp.key

\* the active tab was closed while three tabs were open
C6_Witness ==
  /\ lastOp.op = "removeTab" /\ lastOp.wasActive
  /\ Cardinality(lastOp.existed) = 3
  /\ lastOp.key \notin TabKeys(tabs.items)
  /\ tabs.activeKey \in TabKeys(tabs.items)

\* ------------------------------------------------------------ C7

C8_UnknownPathOpensNoTab ==
  lastOp.op = "syncUnknown" =>
     /\ TabKeys(tabs.items) = lastOp.existed
     /\ Len(tabs.items) = Cardinality(lastOp.existed)
     /\ lastOp.key \notin TabKeys(tabs.items)
     /\ tabs.activeKey = "/dashboard"

\* route sync ran for '/unknown-path' while another tab was open
C8_Witness ==
  /\ lastOp.op = "syncUnknown" /\ lastOp.key = "/unknown-path"
  /\ Cardinality(lastOp.existed) > 1
  /\ tabs.activeKey = "/dashboard"

\* ------------------------------------------------------------ C9

\* C9: addTab makes its path the active tab and appends a tab only when no tab
\* with that key is open; the list never holds two tabs with one key
C9_AddTabUpserts ==
  /\ \A i, j \in DOMAIN tabs.items : tabs.items[i].key = tabs.items[j].key => i = j
  /\ lastOp.op \in {"addTab", "syncKnown"} =>
        /\ tabs.activeKey = lastOp.key
        /\ TabKeys(tabs.items) = lastOp.existed \cup {lastOp.key}
        /\ Len(tabs.items) = Cardinality(lastOp.existed \cup {lastOp.key})

\* addTab ran for a path whose tab was open and not active
C9_Witness ==
  /\ lastOp.op \in {"addTab", "syncKnown"}
  /\ lastOp.key \in lastOp.existed /\ ~lastOp.wasActive
  /\ lastOp.key # HomeKey
  /\ tabs.activeKey = lastOp.key


\* ------------------------------------------------------------- http spec

\* the application is loaded on a page, with or without a token in the store
HttpInit ==
  /\ \E t \in {"", "hdr.one.sig"} :
       /\ ssToken = t
       /\ ssPermissions = [present |-> FALSE, value |-> <<>>]
       /\ AuthIs(initialState(t, ssPermissions))
  /\ routeTree = <<>> /\ href = "/dashboard" /\ rendered = ""
  /\ loginPc = "idle" /\ lastEvent = "load"
  /\ HttpIdle

SpecHttpInit == HttpInit /\ RoutesIdle /\ MenuIdle /\ TabsIdle /\ ClockIdle

SpecHttpNext ==
  \/ HttpCall /\ UNCHANGED <<routeVars, menuVars, tabVars, now>>
  \/ RequestInterceptor /\ UNCHANGED <<routeVars, menuVars, tabVars, now>>
  \/ ResponseInterceptor /\ UNCHANGED <<routeVars, menuVars, tabVars, now>>
  \/ RetryFrameReturns /\ UNCHANGED <<routeVars, menuVars, tabVars, now>>
  \/ CallerReceives /\ UNCHANGED <<routeVars, menuVars, tabVars, now>>

SpecHttp == SpecHttpInit /\ [][SpecHttpNext]_vars

\* the same with every step of a call taken in the end: timers fire, the
\* network answers or times out, promise callbacks run
SpecHttpFair ==
  /\ SpecHttp
  /\ WF_vars(RequestInterceptor /\ UNCHANGED <<routeVars, menuVars, tabVars, now>>)
  /\ WF_vars(ResponseInterceptor /\ UNCHANGED <<routeVars, menuVars, tabVars, now>>)
  /\ WF_vars(RetryFrameReturns /\ UNCHANGED <<routeVars, menuVars, tabVars, now>>)
  /\ WF_vars(CallerReceives /\ UNCHANGED <<routeVars, menuVars, tabVars, now>>)


\* ------------------------------------------------------------ C11

\* an attempt that ended without a response or with a 5xx status
Transient(o) == ~o.response \/ (o.status >= 500 /\ o.status <= 599)

\* the attempts of the call that have been followed by another send
ResentAttempts ==
  { i \in DOMAIN attempts : i < Len(attempts) \/ hpc \in {"request", "inflight"} }

\* C11: an attempt is followed by a re-send only when it had no response or a
\* 5xx status; an attempt that failed with a 4xx status is never re-sent
C11_ResentOnlyTransient ==
  \A i \in ResentAttempts :
    /\ Transient(attempts[i])
    /\ ~(attempts[i].response /\ attempts[i].status >= 400 /\ attempts[i].status <= 499)

\* a timeout was re-sent, the second attempt got a 404 and the call was rejected
\* without a third attempt
C11_Witness ==
  /\ hpc = "rejected" /\ Len(attempts) = 2
  /\ ~attempts[1].response
  /\ attempts[2].response /\ attempts[2].status = 404
  /\ retryCount = 1

\* ------------------------------------------------------------ C12

\* the attempt got no fulfilled response
Failed(o) == ~o.response \/ o.status < 200 \/ o.status > 299

\* C12: a call makes at most 4 attempts, its retry counter never exceeds 3 and
\* counts the re-sends, after a fourth failure it rejects, and every call that
\* is started settles
C12_CallTerminates ==
  /\ [](/\ Len(attempts) <= 4
        /\ retryCount <= 3
        /\ Cardinality(ResentAttempts) = retryCount
        /\ (Len(attempts) = 4 /\ Failed(attempts[4])) =>
              hpc \in {"unwind", "rejected"} /\ settled.kind = "HttpError")
  /\ (hpc = "request") ~> (hpc \in {"resolved", "rejected"})

\* four attempts failed one after the other and the call was rejected
C12_Witness ==
  /\ hpc = "rejected" /\ Len(attempts) = 4 /\ retryCount = 3
  /\ \A i \in 1..4 : Failed(attempts[i])
  /\ backoff = 4000


\* ------------------------------------------------------------ C13

\* the attempt got a 2xx response
Fulfilled(o) == o.response /\ o.status >= 200 /\ o.status <= 299

\* the body is an envelope whose code lies outside 200..299
FailingEnvelope(o) == o.hasCode /\ (o.dataCode < 200 \/ o.dataCode > 299)

\* the response interceptor has just settled the promise of the last attempt
AttemptSettled == hpc = "unwind" /\ attempts # <<>> /\ frames = Len(attempts) - 1

TaxonomyType(o) ==
  IF ~o.response THEN (IF o.code = "ECONNABORTED" THEN "TIMEOUT_ERROR" ELSE "NETWORK_ERROR")
  ELSE IF o.status = 401 THEN "UNAUTHORIZED"
  ELSE IF o.status = 403 THEN "FORBIDDEN"
  ELSE IF o.status \in 400..499 THEN "CLIENT_ERROR"
  ELSE IF o.status \in 500..599 THEN "SERVER_ERROR"
  ELSE ""

\* the seven error types
ErrorTypes ==
  {"NETWORK_ERROR", "TIMEOUT_ERROR", "SERVER_ERROR", "CLIENT_ERROR", "BUSINESS_ERROR",
   "UNAUTHORIZED", "FORBIDDEN"}

Tick ==
  /\ now < MaxClock
  /\ now' = now + 1

\* Login.handleSubmit goes on after login only with a token that is not expired
LoginResolvedInTime ==
  /\ LoginResolved
  /\ ~isExpired(JwtPayloadExp[token'], now)

SpecGuardInit == SessInit /\ RoutesIdle /\ MenuIdle /\ TabsIdle /\ HttpIdle /\ ClockIdle

SpecGuardNext ==
  \/ Tick /\ UNCHANGED <<routeVars, menuVars, sessVars, tabVars, httpVars>>
  \/ OpenAddress /\ UNCHANGED <<routeVars, menuVars, tabVars, httpVars, now>>
  \/ RequireAuthEffect /\ UNCHANGED <<routeVars, menuVars, tabVars, httpVars, now>>
  \/ SubmitLogin /\ UNCHANGED <<routeVars, menuVars, tabVars, httpVars, now>>
  \/ LoginResolvedInTime /\ UNCHANGED <<routeVars, menuVars, tabVars, httpVars, now>>
  \/ LoginRefused /\ UNCHANGED <<routeVars, menuVars, tabVars, httpVars, now>>
  \/ LoginRejected /\ UNCHANGED <<routeVars, menuVars, tabVars, httpVars, now>>
  \/ PermissionsResolved /\ UNCHANGED <<routeVars, menuVars, tabVars, httpVars, now>>
  \/ PermissionsRejected /\ UNCHANGED <<routeVars, menuVars, tabVars, httpVars, now>>
  \/ Logout /\ UNCHANGED <<routeVars, menuVars, tabVars, httpVars, now>>

SpecGuard == SpecGuardInit /\ [][SpecGuardNext]_vars

\* ------------------------------------------------------------ C15

\* the RequireAuth of the current route has nothing to redirect
GuardAtRest == GuardedPath(token, href) = href

\* C15: once the page has been loaded and RequireAuth is at rest, the user is in
\* the protected area only with a stored credential that has not expired
C15_ExpiredSessionNotRestored ==
  (lastEvent \in {"load", "guard"} /\ GuardAtRest /\ href # "/login") =>
     selectIsAuthenticated(token, now)


\* ------------------------------------------------------------- auth spec

\* the lists a setPermissions action may carry
PermissionPayloads ==
  SeqsUpTo({PERMISSIONS.DASHBOARD_READ, PERMISSIONS.TENANTS_READ, UnknownPermission}, MaxPermLen)

\* one action of the slice is dispatched, whatever the page is doing
DispatchSetToken ==
  /\ \E tok \in Tokens : Dispatch("auth/setToken", tok)
  /\ lastEvent' = "setToken"
  /\ UNCHANGED <<routeTree, href, rendered, loginPc>>

DispatchClearToken ==
  /\ Dispatch("auth/clearToken", <<>>)
  /\ lastEvent' = "clearToken"
  /\ UNCHANGED <<routeTree, href, rendered, loginPc>>

DispatchSetPermissions ==
  /\ \E list \in PermissionPayloads : Dispatch("auth/setPermissions", list)
  /\ lastEvent' = "setPermissions"
  /\ UNCHANGED <<routeTree, href, rendered, loginPc>>

DispatchClearPermissions ==
  /\ Dispatch("auth/clearPermissions", <<>>)
  /\ lastEvent' = "clearPermissions"
  /\ UNCHANGED <<routeTree, href, rendered, loginPc>>

SpecAuthInit == SessInit /\ RoutesIdle /\ MenuIdle /\ TabsIdle /\ HttpIdle /\ ClockIdle

SpecAuthNext ==
  \/ DispatchSetToken /\ UNCHANGED <<routeVars, menuVars, tabVars, httpVars, now>>
  \/ DispatchClearToken /\ UNCHANGED <<routeVars, menuVars, tabVars, httpVars, now>>
  \/ DispatchSetPermissions /\ UNCHANGED <<routeVars, menuVars, tabVars, httpVars, now>>
  \/ DispatchClearPermissions /\ UNCHANGED <<routeVars, menuVars, tabVars, httpVars, now>>
  \/ Logout /\ UNCHANGED <<routeVars, menuVars, tabVars, httpVars, now>>
  \/ OpenAddress /\ UNCHANGED <<routeVars, menuVars, tabVars, httpVars, now>>

SpecAuth == SpecAuthInit /\ [][SpecAuthNext]_vars

\* ------------------------------------------------------------ C16

NoUnauthorizedAttempt(list) == \A i \in DOMAIN list : ~(list[i].response /\ list[i].status = 401)

C22_GuardRedirects ==
  /\ (href # "/login" /\ token = "") => GuardedPath(token, href) = "/login"
  /\ (href # "/login" /\ token # "") => GuardedPath(token, href) = href
  /\ (href = "/login" /\ token # "") => GuardedPath(token, href) \notin {"/login", ""}
  /\ (href = "/login" /\ token = "") => GuardedPath(token, href) = href
  /\ lastEvent = "guard" =>
        \/ href = "/login" /\ token = ""
        \/ href = "/" /\ token # ""

\* a logged-in user has been sent away from /login
C22_Witness ==
  /\ lastEvent = "guard" /\ href = "/" /\ token \in Tokens /\ loginPc = "idle"


\* ------------------------------------------------------------- login spec

\* the form is submitted on the login page once its RequireAuth has nothing to
\* redirect
SubmitLoginAtRest ==
  /\ GuardedPath(token, href) = href
  /\ SubmitLogin

SpecLoginInit == SessInit /\ RoutesIdle /\ MenuIdle /\ TabsIdle /\ HttpIdle /\ ClockIdle

SpecLoginNext ==
  \/ Tick /\ UNCHANGED <<routeVars, menuVars, sessVars, tabVars, httpVars>>
  \/ OpenAddress /\ UNCHANGED <<routeVars, menuVars, tabVars, httpVars, now>>
  \/ RequireAuthEffect /\ UNCHANGED <<routeVars, menuVars, tabVars, httpVars, now>>
  \/ SubmitLoginAtRest /\ UNCHANGED <<routeVars, menuVars, tabVars, httpVars, now>>
  \/ LoginResolvedInTime /\ UNCHANGED <<routeVars, menuVars, tabVars, httpVars, now>>
  \/ LoginRefused /\ UNCHANGED <<routeVars, menuVars, tabVars, httpVars, now>>
  \/ LoginRejected /\ UNCHANGED <<routeVars, menuVars, tabVars, httpVars, now>>
  \/ PermissionsResolved /\ UNCHANGED <<routeVars, menuVars, tabVars, httpVars, now>>
  \/ PermissionsRejected /\ UNCHANGED <<routeVars, menuVars, tabVars, httpVars, now>>
  \/ Logout /\ UNCHANGED <<routeVars, menuVars, tabVars, httpVars, now>>

SpecLogin == SpecLoginInit /\ [][SpecLoginNext]_vars

\* ------------------------------------------------------------ C23

\* a login attempt has just ended in failure and its token is neither in the
\* store nor in session storage
FailedAttemptLeavesNoToken ==
  lastEvent \in {"refused", "loginFailed", "permissionsFailed"} =>
     token = "" /\ ssToken = ""

\* the location is not moved off the login page while the permissions of the
\* attempt are still being fetched
NavigationAfterPermissions ==
  loginPc = "perms" => href = "/login"

\* C23: a login attempt that fails leaves its token neither in the store nor in
\* session storage, and the navigation to '/' is made only once the token and
\* the fetched permissions are stored
C23_FailedLoginLeavesNothing ==
  /\ FailedAttemptLeavesNoToken
  /\ NavigationAfterPermissions


\* ------------------------------------------------------------ 401 spec

\* a request of a page of the protected area is answered with 401
PageReceives401 ==
  /\ href # "/login"
  /\ GuardedPath(token, href) = href
  /\ Receive401

GuardStep == RequireAuthEffect /\ UNCHANGED <<routeVars, menuVars, tabVars, httpVars, now>>

SpecBounceInit == SessInit /\ RoutesIdle /\ MenuIdle /\ TabsIdle /\ HttpIdle /\ ClockIdle

SpecBounceNext ==
  \/ OpenAddress /\ UNCHANGED <<routeVars, menuVars, tabVars, httpVars, now>>
  \/ GuardStep
  \/ SubmitLoginAtRest /\ UNCHANGED <<routeVars, menuVars, tabVars, httpVars, now>>
  \/ LoginResolved /\ UNCHANGED <<routeVars, menuVars, tabVars, httpVars, now>>
  \/ LoginRefused /\ UNCHANGED <<routeVars, menuVars, tabVars, httpVars, now>>
  \/ LoginRejected /\ UNCHANGED <<routeVars, menuVars, tabVars, httpVars, now>>
  \/ PermissionsResolved /\ UNCHANGED <<routeVars, menuVars, tabVars, httpVars, now>>
  \/ PermissionsRejected /\ UNCHANGED <<routeVars, menuVars, tabVars, httpVars, now>>
  \/ Logout /\ UNCHANGED <<routeVars, menuVars, tabVars, httpVars, now>>
  \/ PageReceives401 /\ UNCHANGED <<routeVars, menuVars, tabVars, httpVars, now>>

\* a due RequireAuth effect runs
SpecBounce == SpecBounceInit /\ [][SpecBounceNext]_vars /\ WF_vars(GuardStep)

\* ------------------------------------------------------------ C24

RestsOnLogin == href = "/login" /\ GuardedPath(token, href) = href

\* C24: after a 401 response, with nothing else done by the user, the application
\* comes to rest on the login page: RequireAuth does not send the redirect to
\* /login back into the protected area
C24_RestsOnLoginAfter401 ==
  (lastEvent = "401") ~> (RestsOnLogin \/ lastEvent \notin {"401", "guard"})


\* ------------------------------------------------------------ C25

FinalAttempt == attempts[Len(attempts)]

\* the error type of the outcome of the final attempt of a failed call
FinalOutcomeType ==
  IF Fulfilled(FinalAttempt) THEN "BUSINESS_ERROR" ELSE TaxonomyType(FinalAttempt)

\* C25: the caller of a call that was retried and failed is rejected with the
\* error type of the outcome of the final attempt
C25_ErrorOfFinalAttempt ==
  (hpc = "rejected" /\ Len(attempts) > 1 /\ FinalOutcomeType # "") =>
     settled.type = FinalOutcomeType

\* ------------------------------------------------------------ C26

\* C26: the error of a call that has failed has been handled (classified, logged,
\* shown to the user) exactly once, however many attempts were made
C26_HandledOnce ==
  hpc = "rejected" => handled = 1


\* ------------------------------------------------------------ C27

\* C27: for every menu tree, every node of the filtered output, at every depth,
\* is a node that the filter kept: no children list in the output holds a node
\* that was filtered out
C27_OutputNodesPassedFilter ==
  mpc \in {"doneStatic", "doneTree"} =>
    \A n \in AllNodes(menuOut) :
      \E m \in AllNodes(menuIn) : m.key = n.key /\ Keep(m, menuPerms)


\* ---------------------------------------------------- tabs of a session

\* the permission lists of the sessions the tab bar is followed for
LoggedInPermissions ==
  { <<PERMISSIONS.DASHBOARD_READ>>,
    <<PERMISSIONS.DASHBOARD_READ, PERMISSIONS.TENANTS_READ>>,
    <<PERMISSIONS.DASHBOARD_READ, PERMISSIONS.ENERGY_READ>> }

\* a session after login: the token and the permissions are in the store and in
\* sessionStorage, no tabs have been saved
LoggedIn ==
  /\ token = "hdr.two.sig" /\ ssToken = "hdr.two.sig"
  /\ permissions \in LoggedInPermissions
  /\ ssPermissions = [present |-> TRUE, value |-> permissions]
  /\ routeTree = <<>> /\ href = "" /\ rendered = "" /\ loginPc = "off" /\ lastEvent = "idle"

SessionTabsInit ==
  /\ tabsStorage = [present |-> FALSE, value |-> TabsState("", <<>>)]
  /\ tabs = loadTabsFromStorage(tabsStorage)
  /\ pathname \in LocationPaths
  /\ navDep = "" /\ syncDep = ""
  /\ lastOp = [op |-> "load", key |-> "", wasActive |-> FALSE, before |-> "", existed |-> {}]

\* a click on an entry of the sidebar, which shows the menu generated from the
\* permissions of the session
ShownMenuClick ==
  /\ Quiescent
  /\ \E key \in ClickKeys \cap KeysIn(generateMenuFromPermissions(permissions)) :
       LET menuItem == findMenuItemByKey(MENU_NODES, key)[1]
       IN  TabsBecome(addTab(tabs, [key |-> menuItem.key, label |-> menuItem.label,
                                    closable |-> menuItem.key # HomeKey]),
                      "addTab", key)
  /\ UNCHANGED <<pathname, navDep, syncDep>>

SpecSessionTabsInit ==
  SessionTabsInit /\ LoggedIn /\ RoutesIdle /\ MenuIdle /\ HttpIdle /\ ClockIdle

SpecSessionTabsNext ==
  \/ ReloadPage /\ UNCHANGED <<routeVars, menuVars, sessVars, httpVars, now>>
  \/ TabsManagerEffect /\ UNCHANGED <<routeVars, menuVars, sessVars, httpVars, now>>
  \/ RouteSyncEffect /\ UNCHANGED <<routeVars, menuVars, sessVars, httpVars, now>>
  \/ ShownMenuClick /\ UNCHANGED <<routeVars, menuVars, sessVars, httpVars, now>>
  \/ SwitchTab /\ UNCHANGED <<routeVars, menuVars, sessVars, httpVars, now>>
  \/ CloseTab /\ UNCHANGED <<routeVars, menuVars, sessVars, httpVars, now>>
  \/ CloseOtherTabs /\ UNCHANGED <<routeVars, menuVars, sessVars, httpVars, now>>
  \/ CloseAllTabs /\ UNCHANGED <<routeVars, menuVars, sessVars, httpVars, now>>
  \/ LocationChange /\ UNCHANGED <<routeVars, menuVars, sessVars, httpVars, now>>

SpecSessionTabs == SpecSessionTabsInit /\ [][SpecSessionTabsNext]_vars

\* ------------------------------------------------------------ C28

\* the paths of the routes generated for the permissions
RoutePaths(perms) == { r.path : r \in Range(generateRoutesFromPermissions(perms)) }

\* C28: in every state, the key of every tab of the tab list is the path of a
\* route generated for the permissions of the session
C28_TabsAreRoutes ==
  \A i \in DOMAIN tabs.items : tabs.items[i].key \in RoutePaths(permissions)


\* ------------------------------------------------------ fair tabs spec

NavigateStep == TabsManagerEffect /\ UNCHANGED <<routeVars, menuVars, sessVars, httpVars, now>>

SyncStep == RouteSyncEffect /\ UNCHANGED <<routeVars, menuVars, sessVars, httpVars, now>>

\* an effect that is due runs
SpecTabsFair == SpecTabs /\ WF_vars(NavigateStep) /\ WF_vars(SyncStep)

\* ------------------------------------------------------------ C29

\* the feedback between the two effects comes to rest
EffectsSettle == []<>Quiescent

\* at rest the location is the active tab
RestsOnActiveTab == Quiescent => pathname = tabs.activeKey


\* the resting states in which the location is not the active tab are those
\* left by route sync of a path without a menu item
RestsElsewhereOnlyAfterUnknown ==
  (Quiescent /\ pathname # tabs.activeKey) =>
     /\ findMenuItemByKey(MENU_NODES, pathname) = <<>>
     /\ tabs.activeKey = HomeKey

\* C29: after a trigger the feedback between the navigate effect of the tabs
\* manager and route sync comes to rest in finitely many steps, and at rest the
\* location path equals activeKey
C29_FeedbackSettlesOnActiveTab == EffectsSettle /\ []RestsOnActiveTab


\* ------------------------------------------------------------ C30

====
